---- MODULE Spec2Model ----
(***************************************************************************)
(* Client of the ai-chatbot repository: ChatComponent, RagService and      *)
(* DocumentsComponent, together with the HTTP requests they keep in        *)
(* flight.  The backend is not part of the sources: towards the client it  *)
(* appears as the knowledge-base document count and as the answers         *)
(* requests receive, and its Document Ingestor, Retriever and RAG          *)
(* Orchestrator follow the design-level specification of the repository.   *)
(*                                                                         *)
(* Strings are sequences of characters.  A JavaScript value that is a      *)
(* string or undefined is a sequence too; Undefined is a one-element       *)
(* sequence that no string built from the characters below can equal.      *)
(* The DOM (.chat-body, the file input element) is not part of the state.  *)
(***************************************************************************)
EXTENDS Integers, Sequences, FiniteSets, TLC

VARIABLES
    messages,       \* ChatComponent.messages
    userInput,      \* ChatComponent.userInput
    isLoading,      \* ChatComponent.isLoading
    chatHttp,       \* requests of ChatComponent still in flight, in issue order
    chatSends,      \* sendMessage calls accepted so far
    chatPosts,      \* POST /chat requests issued so far
    scrollTimers,   \* setTimeout callbacks of scrollToBottom not yet run
    snackBar,       \* the notice MatSnackBar.open showed last
    httpResponse,   \* the response HttpClient delivered last
    docCount,       \* backend: documents in the knowledge base
    knowledgeBaseAvailable, \* RagService.knowledgeBaseAvailable (its truthiness)
    ragStatusHttp,  \* GET /documents/stats of RagService in flight, in issue order
    ragChatHttp,    \* POSTs of RagService.sendChatMessage in flight, in issue order
    ragResult,      \* how the promise of sendChatMessage settled last
    ragCalls,       \* sendChatMessage calls so far
    ragPosts,       \* POSTs issued by sendChatMessage so far
    latestCheck,    \* how the status check started last has ended, if it has
    selectedFile,   \* DocumentsComponent.selectedFile
    isUploading,    \* DocumentsComponent.isUploading
    uploadHttp,     \* POST /documents/upload in flight, in issue order
    stats,          \* DocumentsComponent.stats
    isLoadingStats, \* DocumentsComponent.isLoadingStats
    statsHttp,      \* GET /documents/stats of DocumentsComponent in flight
    searchQuery,    \* DocumentsComponent.searchQuery
    searchResults,  \* DocumentsComponent.searchResults
    isSearching,    \* DocumentsComponent.isSearching
    searchHttp,     \* GET /documents/search in flight, in issue order
    searchCleared,  \* clearSearch has run and no search has been started since
    testQuery,      \* DocumentsComponent.testQuery
    testResult,     \* DocumentsComponent.testResult
    isTestingQuery, \* DocumentsComponent.isTestingQuery
    testHttp,       \* POST /documents/test-query in flight, in issue order
    vectorIndex,    \* backend: the chunks of the Vector Index, in insertion order
    documents,      \* backend: the Document records, in creation order
    ingestion,      \* backend: the ingest call in progress or ended last
    retrieval,      \* backend: the retrieve call made last and its result
    answering,      \* backend: the answer call in progress or ended last
    conversationStore \* backend: the ConversationTurns of the session

chatVars == <<messages, userInput, isLoading, chatHttp, chatSends, chatPosts,
              scrollTimers>>

ragVars == <<knowledgeBaseAvailable, ragStatusHttp, ragChatHttp, ragResult,
             ragCalls, ragPosts, latestCheck>>

docVars == <<selectedFile, isUploading, uploadHttp, stats, isLoadingStats,
             statsHttp>>

searchVars == <<searchQuery, searchResults, isSearching, searchHttp,
                searchCleared>>

testVars == <<testQuery, testResult, isTestingQuery, testHttp>>

serverVars == <<vectorIndex, documents, ingestion, retrieval, answering,
                conversationStore>>

kbVars == <<docCount, knowledgeBaseAvailable, ragStatusHttp, ragChatHttp,
            ragResult, ragCalls, ragPosts, latestCheck, selectedFile, isUploading,
            uploadHttp, stats,
            isLoadingStats, statsHttp, searchVars, testVars, serverVars>>

vars == <<messages, userInput, isLoading, chatHttp, chatSends, chatPosts,
          scrollTimers, snackBar, httpResponse, docCount,
          knowledgeBaseAvailable, ragStatusHttp, ragChatHttp, ragResult,
          ragCalls, ragPosts, latestCheck, selectedFile, isUploading, uploadHttp,
          stats, isLoadingStats, statsHttp, searchQuery, searchResults,
          isSearching, searchHttp, searchCleared, testQuery, testResult,
          isTestingQuery, testHttp, vectorIndex, documents, ingestion,
          retrieval, answering, conversationStore>>

----------------------------------------------------------------------------
(* Bounds *)

MaxSends == 2       \* sendMessage calls accepted
MaxRagCalls == 2    \* sendChatMessage calls
MaxScrollTimers == 1 \* timers of scrollToBottom pending at a time
MaxDocs == 1        \* documents the backend ingests
MaxUploadedDocs == 2 \* documents in the knowledge base up to which uploads are ingested
MaxUploads == 2     \* POST /documents/upload in flight at a time
MaxChecks == 2      \* GET /documents/stats of RagService in flight at a time
MaxSearches == 2    \* GET /documents/search in flight at a time
MaxTestQueries == 2 \* POST /documents/test-query in flight at a time
MaxIngests == 1     \* ingest calls
MaxEmbedding == 1   \* largest coordinate of an embedding
MaxTopK == 2        \* largest topK of a query
MaxRequests == 2    \* answer calls
MaxTextLength == 8  \* longest text given to the splitter, the scenario aside
MaxChunkSize == 4   \* largest chunk size given to the splitter, the scenario aside

----------------------------------------------------------------------------
(* Strings *)

Undefined == <<"undefined">>

Whitespace == {" "}

\* What the user can have typed into the input box.
Inputs == { <<>>, <<" ">>, <<"a">>, <<" ", "a", " ">>, <<"b", " ", "b">> }

RECURSIVE TrimStart(_)
TrimStart(s) ==
    IF s # <<>> /\ Head(s) \in Whitespace THEN TrimStart(Tail(s)) ELSE s

RECURSIVE TrimEnd(_)
TrimEnd(s) ==
    IF s # <<>> /\ s[Len(s)] \in Whitespace
    THEN TrimEnd(SubSeq(s, 1, Len(s) - 1))
    ELSE s

\* String.prototype.trim
Trim(s) == TrimEnd(TrimStart(s))

Remove(seq, i) == SubSeq(seq, 1, i - 1) \o SubSeq(seq, i + 1, Len(seq))

Last(seq) == seq[Len(seq)]

----------------------------------------------------------------------------
(* MatSnackBar and HttpClient *)

NoNotice == [text |-> "", panelClass |-> ""]

Notice(text, panelClass) == [text |-> text, panelClass |-> panelClass]

Null == [null |-> TRUE]

NoResponse == [url |-> "", ok |-> FALSE, body |-> Null]

\* A response as the subscriber sees it: next(body) when ok, error otherwise.
Response(url, ok, body) == [url |-> url, ok |-> ok, body |-> body]

----------------------------------------------------------------------------
(* ChatComponent *)

FallbackText == <<"Sorry, I encountered an error. Please try again.">>

\* Bodies a chat endpoint can answer with: each of the fields response,
\* reply and answer is a string or absent.
ReplyTexts == { Undefined, <<"r">> }

ChatResponses ==
    { res \in [response : ReplyTexts, reply : ReplyTexts, answer : ReplyTexts] :
        Cardinality({ f \in {"response", "reply", "answer"} : res[f] # Undefined }) <= 1 }

EmptyBody == [response |-> Undefined, reply |-> Undefined, answer |-> Undefined]

Message(text, sender) == [text |-> text, sender |-> sender]

\* The user edits the input box (two-way binding on userInput).
TypeInput(s) ==
    /\ userInput' = s
    /\ UNCHANGED <<messages, isLoading, chatHttp, chatSends, chatPosts,
                   scrollTimers, snackBar, httpResponse, kbVars>>

\* sendMessage without the busy guard
sendMessage_NoBusyGuard ==
    IF Trim(userInput) = <<>>
    THEN UNCHANGED vars
    ELSE /\ chatSends < MaxSends
         /\ chatSends' = chatSends + 1
         /\ messages' = Append(messages, Message(Trim(userInput), "user"))
         /\ userInput' = <<>>
         /\ isLoading' = TRUE
         /\ chatHttp' = Append(chatHttp,
                [method |-> "POST", url |-> "/chat", message |-> Trim(userInput)])
         /\ chatPosts' = chatPosts + 1
         /\ UNCHANGED <<scrollTimers, snackBar, httpResponse, kbVars>>

\* sendMessage emptying the input box when its guard rejects the call
sendMessage_ClearsInputOnReject ==
    IF Trim(userInput) = <<>> \/ isLoading
    THEN /\ userInput' = <<>>
         /\ UNCHANGED <<messages, isLoading, chatHttp, chatSends, chatPosts,
                        scrollTimers, snackBar, httpResponse, kbVars>>
    ELSE /\ chatSends < MaxSends
         /\ chatSends' = chatSends + 1
         /\ messages' = Append(messages, Message(Trim(userInput), "user"))
         /\ userInput' = <<>>
         /\ isLoading' = TRUE
         /\ chatHttp' = Append(chatHttp,
                [method |-> "POST", url |-> "/chat", message |-> Trim(userInput)])
         /\ chatPosts' = chatPosts + 1
         /\ UNCHANGED <<scrollTimers, snackBar, httpResponse, kbVars>>

sendMessage ==
    IF Trim(userInput) = <<>> \/ isLoading
    THEN UNCHANGED vars
    ELSE /\ chatSends < MaxSends
         /\ chatSends' = chatSends + 1
         /\ messages' = Append(messages, Message(Trim(userInput), "user"))
         /\ userInput' = <<>>
         /\ isLoading' = TRUE
         /\ chatHttp' = Append(chatHttp,
                [method |-> "POST", url |-> "/chat", message |-> Trim(userInput)])
         /\ chatPosts' = chatPosts + 1
         /\ UNCHANGED <<scrollTimers, snackBar, httpResponse, kbVars>>

\* ChatPostNext with unshift in place of push
ChatPostNext_Unshift(i, res) ==
    /\ i \in 1..Len(chatHttp)
    /\ chatHttp[i].method = "POST"
    /\ scrollTimers < MaxScrollTimers
    /\ chatHttp' = Remove(chatHttp, i)
    /\ httpResponse' = Response("/chat", TRUE, res)
    /\ messages' = <<Message(res.reply, "bot")>> \o messages
    /\ isLoading' = FALSE
    /\ scrollTimers' = scrollTimers + 1
    /\ UNCHANGED <<userInput, chatSends, chatPosts, snackBar, kbVars>>

\* next callback of the POST /chat subscription; scrollToBottom sets a timer
ChatPostNext(i, res) ==
    /\ i \in 1..Len(chatHttp)
    /\ chatHttp[i].method = "POST"
    /\ scrollTimers < MaxScrollTimers
    /\ chatHttp' = Remove(chatHttp, i)
    /\ httpResponse' = Response("/chat", TRUE, res)
    /\ messages' = Append(messages, Message(res.reply, "bot"))
    /\ isLoading' = FALSE
    /\ scrollTimers' = scrollTimers + 1
    /\ UNCHANGED <<userInput, chatSends, chatPosts, snackBar, kbVars>>

\* ChatPostError leaving the component busy
ChatPostError_StaysLoading(i) ==
    /\ i \in 1..Len(chatHttp)
    /\ chatHttp[i].method = "POST"
    /\ chatHttp' = Remove(chatHttp, i)
    /\ httpResponse' = Response("/chat", FALSE, Null)
    /\ messages' = Append(messages, Message(FallbackText, "bot"))
    /\ snackBar' = Notice("Connection error. Please check if the server is running.",
                          "error-snackbar")
    /\ UNCHANGED <<userInput, isLoading, chatSends, chatPosts, scrollTimers, kbVars>>

\* ChatPostError sending the message once more
ChatPostError_Retries(i) ==
    /\ i \in 1..Len(chatHttp)
    /\ chatHttp[i].method = "POST"
    /\ chatPosts < MaxSends + 1
    /\ chatHttp' = Append(Remove(chatHttp, i), chatHttp[i])
    /\ chatPosts' = chatPosts + 1
    /\ httpResponse' = Response("/chat", FALSE, Null)
    /\ UNCHANGED <<messages, userInput, isLoading, chatSends, scrollTimers,
                   snackBar, kbVars>>

\* error callback of the POST /chat subscription
ChatPostError(i) ==
    /\ i \in 1..Len(chatHttp)
    /\ chatHttp[i].method = "POST"
    /\ chatHttp' = Remove(chatHttp, i)
    /\ httpResponse' = Response("/chat", FALSE, Null)
    /\ messages' = Append(messages, Message(FallbackText, "bot"))
    /\ isLoading' = FALSE
    /\ snackBar' = Notice("Connection error. Please check if the server is running.",
                          "error-snackbar")
    /\ UNCHANGED <<userInput, chatSends, chatPosts, scrollTimers, kbVars>>

\* clearConversation without the busy guard
clearConversation_NoBusyGuard ==
    /\ Len(chatHttp) < MaxSends
    /\ isLoading' = TRUE
    /\ chatHttp' = Append(chatHttp,
           [method |-> "DELETE", url |-> "/chat/clear", message |-> <<>>])
    /\ UNCHANGED <<messages, userInput, chatSends, chatPosts,
                   scrollTimers, snackBar, httpResponse, kbVars>>

clearConversation ==
    IF isLoading
    THEN UNCHANGED vars
    ELSE /\ isLoading' = TRUE
         /\ chatHttp' = Append(chatHttp,
                [method |-> "DELETE", url |-> "/chat/clear", message |-> <<>>])
         /\ UNCHANGED <<messages, userInput, chatSends, chatPosts,
                        scrollTimers, snackBar, httpResponse, kbVars>>

\* next callback of the DELETE /chat/clear subscription
ClearNext(i) ==
    /\ i \in 1..Len(chatHttp)
    /\ chatHttp[i].method = "DELETE"
    /\ chatHttp' = Remove(chatHttp, i)
    /\ httpResponse' = Response("/chat/clear", TRUE, EmptyBody)
    /\ messages' = <<>>
    /\ isLoading' = FALSE
    /\ snackBar' = Notice("Conversation cleared!", "success-snackbar")
    /\ UNCHANGED <<userInput, chatSends, chatPosts, scrollTimers, kbVars>>

\* ClearError without the local clearing of messages
ClearError_KeepsMessages(i) ==
    /\ i \in 1..Len(chatHttp)
    /\ chatHttp[i].method = "DELETE"
    /\ chatHttp' = Remove(chatHttp, i)
    /\ httpResponse' = Response("/chat/clear", FALSE, Null)
    /\ isLoading' = FALSE
    /\ snackBar' = Notice("Conversation cleared locally", "")
    /\ UNCHANGED <<messages, userInput, chatSends, chatPosts, scrollTimers, kbVars>>

\* error callback of the DELETE /chat/clear subscription
ClearError(i) ==
    /\ i \in 1..Len(chatHttp)
    /\ chatHttp[i].method = "DELETE"
    /\ chatHttp' = Remove(chatHttp, i)
    /\ httpResponse' = Response("/chat/clear", FALSE, Null)
    /\ messages' = <<>>
    /\ isLoading' = FALSE
    /\ snackBar' = Notice("Conversation cleared locally", "")
    /\ UNCHANGED <<userInput, chatSends, chatPosts, scrollTimers, kbVars>>

\* The timer callback of scrollToBottom runs.
ScrollTimeout ==
    /\ scrollTimers > 0
    /\ scrollTimers' = scrollTimers - 1
    /\ UNCHANGED <<messages, userInput, isLoading, chatHttp, chatSends,
                   chatPosts, snackBar, httpResponse, kbVars>>

----------------------------------------------------------------------------
(* ChatComponent, the earlier version that UI_SPACING_FIX.md records: it has
   the fields messages and userInput only, no busy flag, no notices and no
   scrollToBottom. *)

EarlierFallbackText == <<"Sorry, there was an error.">>

\* sendMessage of the earlier version: the guard tests the trimmed input,
\* the message pushed and posted is the input as typed.
EarlierSendMessage ==
    IF Trim(userInput) = <<>>
    THEN UNCHANGED vars
    ELSE /\ chatSends < MaxSends
         /\ chatSends' = chatSends + 1
         /\ messages' = Append(messages, Message(userInput, "user"))
         /\ userInput' = <<>>
         /\ chatHttp' = Append(chatHttp,
                [method |-> "POST", url |-> "/chat", message |-> userInput])
         /\ chatPosts' = chatPosts + 1
         /\ UNCHANGED <<isLoading, scrollTimers, snackBar, httpResponse, kbVars>>

\* next callback of the earlier subscription
EarlierPostNext(i, res) ==
    /\ i \in 1..Len(chatHttp)
    /\ chatHttp' = Remove(chatHttp, i)
    /\ httpResponse' = Response("/chat", TRUE, res)
    /\ messages' = Append(messages, Message(res.reply, "bot"))
    /\ UNCHANGED <<userInput, isLoading, chatSends, chatPosts, scrollTimers,
                   snackBar, kbVars>>

\* error callback of the earlier subscription
EarlierPostError(i) ==
    /\ i \in 1..Len(chatHttp)
    /\ chatHttp' = Remove(chatHttp, i)
    /\ httpResponse' = Response("/chat", FALSE, Null)
    /\ messages' = Append(messages, Message(EarlierFallbackText, "bot"))
    /\ UNCHANGED <<userInput, isLoading, chatSends, chatPosts, scrollTimers,
                   snackBar, kbVars>>

----------------------------------------------------------------------------
(* Properties of ChatComponent *)

\* A step in which a request of ChatComponent completes.
ChatDelivered == Len(chatHttp') < Len(chatHttp)

\* C1: when the DELETE /chat/clear of an accepted clearConversation
\* completes, with success or with failure, messages is empty, isLoading is
\* false and the notice shown is not an error notice.
C1_ClearEndsEmpty ==
    [][(ChatDelivered /\ httpResponse'.url = "/chat/clear")
         => /\ messages' = <<>>
            /\ isLoading' = FALSE
            /\ snackBar'.panelClass # "error-snackbar"]_vars

\* A failed clear has completed after a message had been sent, and has left
\* the conversation empty.
C1_Witness ==
    /\ chatSends > 0
    /\ httpResponse = Response("/chat/clear", FALSE, Null)
    /\ snackBar.text = "Conversation cleared locally"
    /\ messages = <<>>
    /\ ~isLoading

\* t is s without leading and trailing whitespace.
IsTrimmed(t, s) ==
    /\ t # <<>>
    /\ Head(t) \notin Whitespace
    /\ Last(t) \notin Whitespace
    /\ \E a \in 0..Len(s) :
         /\ a + Len(t) <= Len(s)
         /\ SubSeq(s, a + 1, a + Len(t)) = t
         /\ \A k \in (1..a) \cup ((a + Len(t) + 1)..Len(s)) : s[k] \in Whitespace

Alternates(msgs) ==
    \A k \in 1..Len(msgs) : msgs[k].sender = IF k % 2 = 1 THEN "user" ELSE "bot"

\* C2: messages alternates user, bot starting with user and has even length
\* whenever isLoading is false; a step appends at most one message, a user
\* message only as the trimmed input together with the POST of the exchange,
\* and the completion of that POST appends exactly one bot message.
C2_TwoTurnsPerExchange ==
    /\ [](Alternates(messages) /\ (~isLoading => Len(messages) % 2 = 0))
    /\ [][/\ Len(messages') > Len(messages)
             => /\ Len(messages') = Len(messages) + 1
                /\ SubSeq(messages', 1, Len(messages)) = messages
          /\ (Len(messages') > Len(messages) /\ Last(messages').sender = "user")
             => /\ IsTrimmed(Last(messages').text, userInput)
                /\ Len(chatHttp') = Len(chatHttp) + 1
                /\ Last(chatHttp').url = "/chat"
          /\ (ChatDelivered /\ httpResponse'.url = "/chat")
             => /\ Len(messages') = Len(messages) + 1
                /\ Last(messages').sender = "bot"
                /\ Last(messages').text \in
                     IF httpResponse'.ok THEN {httpResponse'.body.reply}
                                         ELSE {FallbackText}]_vars

\* Two exchanges are complete, the first typed with surrounding blanks and
\* the second answered by the fallback.
C2_Witness ==
    /\ Len(messages) = 4
    /\ ~isLoading
    /\ messages[1].text = <<"b", " ", "b">>
    /\ messages[4].text = FallbackText

\* C4: when a POST /chat fails, the fixed fallback reply is appended as a
\* bot message, the error notice is shown and isLoading is false again.
C4_FailedChatFallsBack ==
    [][(ChatDelivered /\ httpResponse'.url = "/chat" /\ ~httpResponse'.ok)
         => /\ messages' = Append(messages,
                  Message(<<"Sorry, I encountered an error. Please try again.">>, "bot"))
            /\ snackBar'.panelClass = "error-snackbar"
            /\ isLoading' = FALSE]_vars

\* A chat request has failed and the fallback reply is the last message.
C4_Witness ==
    /\ httpResponse = Response("/chat", FALSE, Null)
    /\ messages # <<>>
    /\ Last(messages).sender = "bot"
    /\ Last(messages).text = FallbackText
    /\ snackBar.panelClass = "error-snackbar"
    /\ ~isLoading

\* C8: whenever a POST /chat is in flight, isLoading eventually becomes
\* false again, also when the backend never answers.
C8_LoadingEnds ==
    (\E i \in 1..Len(chatHttp) : chatHttp[i].method = "POST") ~> ~isLoading

\* The first defined of the fields response, reply, answer.
FirstDefined(res) ==
    IF res.response # Undefined THEN res.response
    ELSE IF res.reply # Undefined THEN res.reply
    ELSE res.answer

\* C10: the bot message appended for a successful chat response carries the
\* first defined of the fields response, reply, answer of the response.
C10_FirstDefinedField ==
    [][(ChatDelivered /\ httpResponse'.url = "/chat" /\ httpResponse'.ok)
         => Last(messages').text = FirstDefined(httpResponse'.body)]_vars

\* C11: when a chat request is abandoned before its reply arrives (it ends
\* without a reply, which HttpClient reports through the error callback),
\* the conversation holds no turn of that request: the user turn appended
\* for it is gone and no assistant turn has been added.
C11_NoPartialTurnOnAbort ==
    [][(ChatDelivered /\ httpResponse'.url = "/chat" /\ ~httpResponse'.ok)
         => /\ Len(messages') % 2 = 0
            /\ messages' = SubSeq(messages, 1, Len(messages) - 1)]_vars

\* C18: every step that appends a message, the user's in sendMessage or a
\* bot message in either callback, also triggers scrollToBottom.
C18_ScrollAtBothEnds ==
    [][Len(messages') > Len(messages) => scrollTimers' = scrollTimers + 1]_vars

\* C19: the number of requests of ChatComponent in flight is 1 while
\* isLoading is true and 0 while it is false; a clear is issued and
\* completes only between exchanges, when every user message has its reply.
C19_SingleBlockingRequest ==
    /\ [](Len(chatHttp) = IF isLoading THEN 1 ELSE 0)
    /\ [][/\ (Len(chatHttp') > Len(chatHttp) /\ Last(chatHttp').method = "DELETE")
             => Len(messages) % 2 = 0
          /\ (ChatDelivered /\ httpResponse'.url = "/chat/clear")
             => /\ Len(messages) % 2 = 0
                /\ chatHttp' = <<>>]_vars

\* A clear is in flight after a complete exchange, and sendMessage is
\* being held off by it with text in the input box.
C19_Witness ==
    /\ isLoading
    /\ Len(chatHttp) = 1
    /\ chatHttp[1].method = "DELETE"
    /\ Len(messages) = 2
    /\ Trim(userInput) # <<>>

\* C20: every step other than the completion of a clear keeps the entries
\* of messages, in their order, and adds entries only at the end.
C20_AppendOnlyBetweenClears ==
    [][~(ChatDelivered /\ httpResponse'.url = "/chat/clear")
         => /\ Len(messages') >= Len(messages)
            /\ SubSeq(messages', 1, Len(messages)) = messages]_vars

\* The reply of a second exchange has been appended behind the first
\* exchange, whose entries are still in place.
C20_Witness ==
    /\ Len(messages) = 4
    /\ httpResponse.url = "/chat"
    /\ httpResponse.ok
    /\ messages[1].sender = "user"
    /\ messages[2].text = FallbackText
    /\ messages[4].text = <<"r">>

\* C29: a sendMessage rejected by its guard (blank input, or isLoading)
\* and a clearConversation rejected by its guard (isLoading) leave
\* messages, userInput and isLoading as they were and issue no request:
\* while isLoading is true only the completion of the request in flight
\* changes any of them, and with a blank input and isLoading false no
\* message is added, the input is kept, no POST is issued, and isLoading
\* changes only with the DELETE of an accepted clearConversation.
C29_RejectedCallsChangeNothing ==
    [][/\ (isLoading /\ ~ChatDelivered)
             => UNCHANGED <<messages, userInput, isLoading, chatHttp, chatPosts>>
       /\ (~isLoading /\ Trim(userInput) = <<>>)
             => /\ UNCHANGED <<messages, userInput, chatPosts>>
                /\ (isLoading' # isLoading \/ chatHttp' # chatHttp)
                     => /\ isLoading'
                        /\ Len(chatHttp') = Len(chatHttp) + 1
                        /\ Last(chatHttp').method = "DELETE"]_vars

\* A second clear is in flight with text in the input box and nothing
\* sent: sendMessage and clearConversation are both held off, and the text
\* typed at the start is still in the box.
C29_Witness ==
    /\ isLoading
    /\ Len(chatHttp) = 1
    /\ chatHttp[1].method = "DELETE"
    /\ httpResponse.url = "/chat/clear"
    /\ Trim(userInput) # <<>>
    /\ chatPosts = 0
    /\ messages = <<>>

\* C32: in the earlier ChatComponent the message list alternates user,
\* bot under every interleaving of sends and responses: each bot message
\* comes right after the user message it answers.
C32_EarlierAlternates ==
    Alternates(messages)

----------------------------------------------------------------------------
(* Backend *)

\* A GET /documents/stats in flight: not handled by the backend yet, or
\* handled, with the count the backend read when it handled the request.
\* The client sees the count when the response arrives.
NotHandled == [handled |-> FALSE, total_documents |-> 0]

StatsAnswer(n) == [handled |-> TRUE, total_documents |-> n]

\* The body of the response to a handled GET /documents/stats.
StatsBody(request) == [stats |-> [total_documents |-> request.total_documents]]

\* The backend ingests a document some client has uploaded: the effect of
\* an upload on the knowledge base, whoever sent it.
BackendIngest ==
    /\ docCount < MaxDocs
    /\ docCount' = docCount + 1
    /\ UNCHANGED <<chatVars, searchVars, testVars, serverVars,
                   snackBar, httpResponse, ragVars, docVars>>

\* No ingest, retrieve or answer call has been made yet.
NoIngestion ==
    [stage |-> "idle", doc |-> 0, textLength |-> 0, chunkSize |-> 1, overlap |-> 0,
     offsets |-> <<>>, error |-> ""]

NoRetrieval == [query |-> Null, results |-> <<>>]

NoAnswering ==
    [stage |-> "idle", request |-> 0, userText |-> <<>>, mode |-> "",
     usedRetrieval |-> FALSE, context |-> <<>>, prompt |-> Null, reply |-> <<>>,
     error |-> "", trace |-> <<>>]

----------------------------------------------------------------------------
(* Backend: Document Ingestor *)

\* The observed configuration of the splitter.
ChunkSize == 1000

Overlap == 200

\* Lengths of the text extracted from an uploaded file.
TextLengths == { 0, 1000, 1800 }

\* An embedding is a fixed-length numeric vector: here one coordinate.
Embeddings == 0..MaxEmbedding

\* The source offsets of the windows of length chunkSize that overlap by
\* overlap, from offset off on: the next window starts chunkSize - overlap
\* further, as long as the window at off does not reach the end of the text.
RECURSIVE OffsetsFrom(_, _, _, _)
OffsetsFrom(off, textLength, chunkSize, overlap) ==
    IF off + chunkSize >= textLength
    THEN <<off>>
    ELSE <<off>> \o OffsetsFrom(off + chunkSize - overlap, textLength, chunkSize, overlap)

\* SplitOffsets with windows that do not overlap
SplitOffsets_NoOverlap(textLength, chunkSize, overlap) ==
    IF textLength = 0 THEN <<>> ELSE OffsetsFrom(0, textLength, chunkSize, 0)

\* An empty text has no chunk.
SplitOffsets(textLength, chunkSize, overlap) ==
    IF textLength = 0 THEN <<>> ELSE OffsetsFrom(0, textLength, chunkSize, overlap)

Min(a, b) == IF a <= b THEN a ELSE b

\* Chunk number no of document doc: its text is the span of the source
\* from its offset, and it is inserted with text and embedding together.
Chunk(doc, no, job, embedding) ==
    [id |-> [doc |-> doc, no |-> no],
     text |-> [from |-> job.offsets[no],
               to |-> Min(job.offsets[no] + job.chunkSize, job.textLength)],
     sourceDocument |-> doc,
     sourceOffset |-> job.offsets[no],
     embedding |-> embedding]

\* The chunks of document doc in the Vector Index.
ChunksOf(doc) == SelectSeq(vectorIndex, LAMBDA c : c.sourceDocument = doc)

\* delete-by-document
DeleteByDocument(doc) == SelectSeq(vectorIndex, LAMBDA c : c.sourceDocument # doc)

IngestionRunning == ingestion.stage \in {"extracting", "embedding", "rollback"}

\* ingest is called with a file that has passed the type and size checks.
ingest(textLength, chunkSize, overlap) ==
    /\ ~IngestionRunning
    /\ ingestion.doc < MaxIngests
    /\ ingestion' = [stage |-> "extracting", doc |-> ingestion.doc + 1,
                     textLength |-> textLength, chunkSize |-> chunkSize,
                     overlap |-> overlap, offsets |-> <<>>, error |-> ""]
    /\ UNCHANGED <<chatVars, snackBar, httpResponse, docCount, ragVars, docVars,
                   searchVars, testVars, vectorIndex, documents, retrieval, answering,
                   conversationStore>>

\* The text is extracted and split into overlapping windows.
ExtractNext ==
    /\ ingestion.stage = "extracting"
    /\ ingestion' = [ingestion EXCEPT
            !.stage = "embedding",
            !.offsets = SplitOffsets(ingestion.textLength, ingestion.chunkSize,
                                     ingestion.overlap)]
    /\ UNCHANGED <<chatVars, snackBar, httpResponse, docCount, ragVars, docVars,
                   searchVars, testVars, vectorIndex, documents, retrieval, answering,
                   conversationStore>>

\* Extraction fails: the ingestion aborts before anything is created.
ExtractError ==
    /\ ingestion.stage = "extracting"
    /\ ingestion' = [ingestion EXCEPT !.stage = "failed", !.error = "ExtractionError"]
    /\ UNCHANGED <<chatVars, snackBar, httpResponse, docCount, ragVars, docVars,
                   searchVars, testVars, vectorIndex, documents, retrieval, answering,
                   conversationStore>>

\* The next chunk is embedded and inserted into the Vector Index.
EmbedNext(embedding) ==
    /\ ingestion.stage = "embedding"
    /\ Len(ChunksOf(ingestion.doc)) < Len(ingestion.offsets)
    /\ vectorIndex' = Append(vectorIndex,
            Chunk(ingestion.doc, Len(ChunksOf(ingestion.doc)) + 1, ingestion, embedding))
    /\ UNCHANGED <<chatVars, snackBar, httpResponse, docCount, ragVars, docVars,
                   searchVars, testVars, documents, ingestion, retrieval, answering,
                   conversationStore>>

\* The embedding call fails for the next chunk: the ingestion aborts.
EmbedError ==
    /\ ingestion.stage = "embedding"
    /\ Len(ChunksOf(ingestion.doc)) < Len(ingestion.offsets)
    /\ ingestion' = [ingestion EXCEPT !.stage = "rollback",
                                      !.error = "EmbeddingServiceError"]
    /\ UNCHANGED <<chatVars, snackBar, httpResponse, docCount, ragVars, docVars,
                   searchVars, testVars, vectorIndex, documents, retrieval, answering,
                   conversationStore>>

\* Rollback leaving the chunks inserted so far in the index
Rollback_KeepsChunks ==
    /\ ingestion.stage = "rollback"
    /\ ingestion' = [ingestion EXCEPT !.stage = "failed"]
    /\ UNCHANGED <<chatVars, snackBar, httpResponse, docCount, ragVars, docVars,
                   searchVars, testVars, vectorIndex, documents, retrieval, answering,
                   conversationStore>>

\* The aborted ingestion deletes the chunks it has inserted and fails.
Rollback ==
    /\ ingestion.stage = "rollback"
    /\ vectorIndex' = DeleteByDocument(ingestion.doc)
    /\ ingestion' = [ingestion EXCEPT !.stage = "failed"]
    /\ UNCHANGED <<chatVars, snackBar, httpResponse, docCount, ragVars, docVars,
                   searchVars, testVars, documents, retrieval, answering, conversationStore>>

\* All chunks are in the index: the Document is assembled and returned,
\* and KnowledgeBaseStats counts it.
IngestReturn ==
    /\ ingestion.stage = "embedding"
    /\ Len(ChunksOf(ingestion.doc)) = Len(ingestion.offsets)
    /\ documents' = Append(documents,
            [id |-> ingestion.doc,
             chunkIds |-> [k \in 1..Len(ingestion.offsets) |->
                              [doc |-> ingestion.doc, no |-> k]]])
    /\ docCount' = docCount + 1
    /\ ingestion' = [ingestion EXCEPT !.stage = "done"]
    /\ UNCHANGED <<chatVars, snackBar, httpResponse, ragVars, docVars, searchVars, testVars,
                   vectorIndex, retrieval, answering, conversationStore>>

----------------------------------------------------------------------------
(* Backend: Retriever *)

Abs(n) == IF n < 0 THEN -n ELSE n

\* The similarity of two embeddings: the closer, the higher.
Similarity(a, b) == MaxEmbedding - Abs(a - b)

\* Chunk i of the index comes before chunk j in the order of the nearest
\* neighbours of q: higher similarity first, insertion order on ties.
Precedes(index, q, i, j) ==
    \/ Similarity(q, index[i].embedding) > Similarity(q, index[j].embedding)
    \/ /\ Similarity(q, index[i].embedding) = Similarity(q, index[j].embedding)
       /\ i < j

\* The topK nearest neighbours of q, nearest first, with their scores.
NearestNeighbours(index, q, topK) ==
    [r \in 1..Min(topK, Len(index)) |->
        LET i == CHOOSE i \in 1..Len(index) :
                   Cardinality({ j \in 1..Len(index) : Precedes(index, q, j, i) }) = r - 1
        IN  [chunk |-> index[i], score |-> Similarity(q, index[i].embedding)]]

\* retrieve without the threshold filter
retrieve_NoThreshold(index, q, topK, threshold) ==
    NearestNeighbours(index, q, topK)

\* The RetrievalResult for a query with embedding q.
retrieve(index, q, topK, threshold) ==
    SelectSeq(NearestNeighbours(index, q, topK), LAMBDA r : r.score >= threshold)

\* A retrieve call, at any moment of an ingestion.
Retrieve(q, topK, threshold) ==
    /\ retrieval' = [query |-> [embedding |-> q, topK |-> topK, threshold |-> threshold],
                     results |-> retrieve(vectorIndex, q, topK, threshold)]
    /\ UNCHANGED <<chatVars, snackBar, httpResponse, docCount, ragVars, docVars,
                   searchVars, testVars, vectorIndex, documents, ingestion, answering,
                   conversationStore>>

----------------------------------------------------------------------------
(* Backend: RAG Orchestrator and Conversation Store *)

\* The orchestrator's fixed topK, and its threshold on the scale of
\* Similarity.
RetrievalTopK == 5

RetrievalThreshold == 1

\* What the user asks.
UserTexts == { <<"q">> }

GeneratedReply == <<"r">>

FallbackReply == <<"fallback">>

ConversationTurn(role, text) == [role |-> role, text |-> text]

\* answer is called: the request enters mode selection.
answer(userText) ==
    /\ answering.stage \in {"idle", "done"}
    /\ answering.request < MaxRequests
    /\ answering' = [NoAnswering EXCEPT
            !.stage = "ModeSelect", !.request = answering.request + 1,
            !.userText = userText, !.trace = <<"ModeSelect">>]
    /\ UNCHANGED <<chatVars, snackBar, httpResponse, docCount, ragVars, docVars,
                   searchVars, testVars, vectorIndex, documents, ingestion, retrieval,
                   conversationStore>>

\* Step 1: Standard mode on an empty knowledge base, RAG mode otherwise.
ModeSelect ==
    /\ answering.stage = "ModeSelect"
    /\ answering' =
         IF docCount = 0
         THEN [answering EXCEPT !.mode = "Standard", !.stage = "Assemble",
                                !.trace = Append(@, "Assemble")]
         ELSE [answering EXCEPT !.mode = "RAG", !.stage = "Retrieve",
                                !.trace = Append(@, "Retrieve")]
    /\ UNCHANGED <<chatVars, snackBar, httpResponse, docCount, ragVars, docVars,
                   searchVars, testVars, vectorIndex, documents, ingestion, retrieval,
                   conversationStore>>

\* Step 2: the Retriever returns the context for the query embedding q.
RetrieveNext(q) ==
    /\ answering.stage = "Retrieve"
    /\ LET result == retrieve(vectorIndex, q, RetrievalTopK, RetrievalThreshold)
       IN  /\ retrieval' = [query |-> [embedding |-> q, topK |-> RetrievalTopK,
                                       threshold |-> RetrievalThreshold],
                            results |-> result]
           /\ answering' = [answering EXCEPT
                   !.context = result, !.usedRetrieval = result # <<>>,
                   !.stage = "Assemble", !.trace = Append(@, "Assemble")]
    /\ UNCHANGED <<chatVars, snackBar, httpResponse, docCount, ragVars, docVars,
                   searchVars, testVars, vectorIndex, documents, ingestion, conversationStore>>

\* RetrieveError going back to mode selection to degrade
RetrieveError_Reselects ==
    /\ answering.stage = "Retrieve"
    /\ answering' = [answering EXCEPT
            !.error = "IndexUnavailable",
            !.stage = "ModeSelect", !.trace = Append(@, "ModeSelect")]
    /\ UNCHANGED <<chatVars, snackBar, httpResponse, docCount, ragVars, docVars,
                   searchVars, testVars, vectorIndex, documents, ingestion, retrieval,
                   conversationStore>>

\* Step 2 fails: the request degrades to Standard mode with no context.
RetrieveError ==
    /\ answering.stage = "Retrieve"
    /\ answering' = [answering EXCEPT
            !.mode = "Standard", !.error = "IndexUnavailable",
            !.stage = "Assemble", !.trace = Append(@, "Assemble")]
    /\ UNCHANGED <<chatVars, snackBar, httpResponse, docCount, ragVars, docVars,
                   searchVars, testVars, vectorIndex, documents, ingestion, retrieval,
                   conversationStore>>

\* Step 3: the prompt combines the history, the context and the question.
Assemble ==
    /\ answering.stage = "Assemble"
    /\ answering' = [answering EXCEPT
            !.prompt = [history |-> conversationStore, context |-> answering.context,
                        userText |-> answering.userText],
            !.stage = "Generate", !.trace = Append(@, "Generate")]
    /\ UNCHANGED <<chatVars, snackBar, httpResponse, docCount, ragVars, docVars,
                   searchVars, testVars, vectorIndex, documents, ingestion, retrieval,
                   conversationStore>>

\* Step 4: the Answer Generator returns a reply.
GenerateNext ==
    /\ answering.stage = "Generate"
    /\ answering' = [answering EXCEPT
            !.reply = GeneratedReply,
            !.stage = "Persist", !.trace = Append(@, "Persist")]
    /\ UNCHANGED <<chatVars, snackBar, httpResponse, docCount, ragVars, docVars,
                   searchVars, testVars, vectorIndex, documents, ingestion, retrieval,
                   conversationStore>>

\* Step 4 fails: the fallback reply, with GenerationError as the signal.
GenerateError ==
    /\ answering.stage = "Generate"
    /\ answering' = [answering EXCEPT
            !.reply = FallbackReply, !.error = "GenerationError",
            !.stage = "Persist", !.trace = Append(@, "Persist")]
    /\ UNCHANGED <<chatVars, snackBar, httpResponse, docCount, ragVars, docVars,
                   searchVars, testVars, vectorIndex, documents, ingestion, retrieval,
                   conversationStore>>

\* Step 5: the user turn and the assistant turn are appended, in that
\* order, and the reply is returned.
Persist ==
    /\ answering.stage = "Persist"
    /\ conversationStore' = conversationStore
            \o << ConversationTurn("user", answering.userText),
                  ConversationTurn("assistant", answering.reply) >>
    /\ answering' = [answering EXCEPT !.stage = "done"]
    /\ UNCHANGED <<chatVars, snackBar, httpResponse, docCount, ragVars, docVars,
                   searchVars, testVars, vectorIndex, documents, ingestion, retrieval>>

\* Step 5 fails: the error is logged and the reply is returned.
PersistError ==
    /\ answering.stage = "Persist"
    /\ answering' = [answering EXCEPT !.stage = "done"]
    /\ UNCHANGED <<chatVars, snackBar, httpResponse, docCount, ragVars, docVars,
                   searchVars, testVars, vectorIndex, documents, ingestion, retrieval,
                   conversationStore>>

----------------------------------------------------------------------------
(* Properties of the Document Ingestor and the Retriever *)

\* Chunk a was inserted into the index before chunk b.
InsertedBefore(a, b) ==
    \/ a.id.doc < b.id.doc
    \/ a.id.doc = b.id.doc /\ a.id.no < b.id.no

\* C14: a RetrievalResult has at most topK entries, every score is the
\* similarity of its chunk to the query and passes the threshold, and the
\* entries are in descending order of score, equal scores in insertion order.
C14_RetrievalBounded ==
    retrieval.query # Null =>
        LET r == retrieval.results
            query == retrieval.query
        IN  /\ Len(r) <= query.topK
            /\ \A k \in 1..Len(r) :
                  /\ r[k].score >= query.threshold
                  /\ r[k].score = Similarity(query.embedding, r[k].chunk.embedding)
            /\ \A a, b \in 1..Len(r) :
                  a < b => \/ r[a].score > r[b].score
                           \/ /\ r[a].score = r[b].score
                              /\ InsertedBefore(r[a].chunk, r[b].chunk)

\* A query has returned topK = 2 chunks of equal score, in insertion
\* order, with a threshold that excludes some similarity.
C14_Witness ==
    /\ retrieval.query # Null
    /\ retrieval.query.topK = 2
    /\ retrieval.query.threshold > 0
    /\ Len(retrieval.results) = 2
    /\ retrieval.results[1].score = retrieval.results[2].score
    /\ retrieval.results[1].chunk.id.no < retrieval.results[2].chunk.id.no

\* ceil(a / b) for b > 0
CeilDiv(a, b) == -((-a) \div b)

\* The offsets of the split are 0, S-O, 2(S-O), ...
OffsetsAreMultiples(job) ==
    \A k \in 1..Len(job.offsets) :
        job.offsets[k] = (k - 1) * (job.chunkSize - job.overlap)

\* The chunk count is ceil((L - O) / (S - O)) within 1.
CountNearFormula(job) ==
    Abs(Len(job.offsets)
        - CeilDiv(job.textLength - job.overlap, job.chunkSize - job.overlap)) <= 1

\* The scenario: L = 2400, S = 1000, O = 200 gives offsets 0, 800, 1600.
ScenarioHolds(job) ==
    (job.textLength = 2400 /\ job.chunkSize = 1000 /\ job.overlap = 200)
        => job.offsets = <<0, 800, 1600>>

\* C15 as stated: for every text length L, chunk size S and overlap O < S
\* the chunks are at offsets 0, S-O, 2(S-O), ..., their count is
\* ceil((L - O) / (S - O)) within 1, and the scenario gives 3 chunks at
\* 0, 800, 1600.
C15_ChunkingArithmeticAnyLength ==
    ingestion.stage = "embedding"
        => /\ OffsetsAreMultiples(ingestion)
           /\ CountNearFormula(ingestion)
           /\ ScenarioHolds(ingestion)

\* C15, amended: the same, the count being compared with the formula for
\* texts at least as long as the overlap (L >= O).
C15_ChunkingArithmetic ==
    ingestion.stage = "embedding"
        => /\ OffsetsAreMultiples(ingestion)
           /\ ingestion.textLength >= ingestion.overlap => CountNearFormula(ingestion)
           /\ ScenarioHolds(ingestion)

\* The text of 2400 characters has been split into its three chunks.
C15_Witness ==
    /\ ingestion.stage = "embedding"
    /\ ingestion.textLength = 2400
    /\ ingestion.chunkSize = 1000
    /\ ingestion.overlap = 200
    /\ Len(ingestion.offsets) = 3

\* C16: after a failed ingest there is no Document record and no chunk of
\* that document; every chunk in the index belongs to a Document or to the
\* ingestion in progress; and every chunk in the index or in a
\* RetrievalResult has both its text and its embedding.
C16_IngestionAtomic ==
    /\ ingestion.stage = "failed"
         => /\ ChunksOf(ingestion.doc) = <<>>
            /\ \A d \in 1..Len(documents) : documents[d].id # ingestion.doc
    /\ \A c \in 1..Len(vectorIndex) :
         \/ \E d \in 1..Len(documents) : documents[d].id = vectorIndex[c].sourceDocument
         \/ /\ vectorIndex[c].sourceDocument = ingestion.doc
            /\ ingestion.stage \in {"embedding", "rollback"}
    /\ \A c \in 1..Len(vectorIndex) :
         /\ "text" \in DOMAIN vectorIndex[c]
         /\ "embedding" \in DOMAIN vectorIndex[c]
         /\ vectorIndex[c].embedding \in Embeddings
    /\ \A k \in 1..Len(retrieval.results) :
         /\ "text" \in DOMAIN retrieval.results[k].chunk
         /\ "embedding" \in DOMAIN retrieval.results[k].chunk

\* An ingestion has failed in the embedding of its second chunk, after a
\* query had returned its first chunk, and the index holds no chunk of it.
C16_Witness ==
    /\ ingestion.stage = "failed"
    /\ ingestion.error = "EmbeddingServiceError"
    /\ \E k \in 1..Len(retrieval.results) :
         retrieval.results[k].chunk.sourceDocument = ingestion.doc
    /\ ChunksOf(ingestion.doc) = <<>>

----------------------------------------------------------------------------
(* Properties of the RAG Orchestrator *)

Stages == <<"ModeSelect", "Retrieve", "Assemble", "Generate", "Persist">>

StagesWithoutRetrieve == <<"ModeSelect", "Assemble", "Generate", "Persist">>

IsPrefix(a, b) == Len(a) <= Len(b) /\ SubSeq(b, 1, Len(a)) = a

TraceInOrder(request) ==
    /\ \/ IsPrefix(request.trace, Stages)
       \/ /\ IsPrefix(request.trace, StagesWithoutRetrieve)
          /\ request.mode = "Standard"
          /\ ~request.usedRetrieval
          /\ request.error # "IndexUnavailable"
    /\ request.stage \notin {"idle", "done"} => request.stage = Last(request.trace)
    /\ request.stage = "done" => Last(request.trace) = "Persist"

\* C17: the stages a request has entered are a prefix of ModeSelect,
\* Retrieve, Assemble, Generate, Persist, or of that order without Retrieve
\* when mode selection chose Standard mode on an empty knowledge base; the
\* stage in progress is the one entered last, a finished request has passed
\* Persist, and a step of a request enters exactly the next stage or ends
\* the request after Persist.
C17_StagesInOrder ==
    /\ [](TraceInOrder(answering))
    /\ [][(answering' # answering /\ answering'.request = answering.request)
            => \/ /\ answering'.trace = Append(answering.trace, answering'.stage)
                  /\ answering.stage = Last(answering.trace)
               \/ /\ answering.stage = "Persist"
                  /\ answering'.stage = "done"
                  /\ answering'.trace = answering.trace]_vars

\* The second request, over a non-empty knowledge base, has passed all
\* five stages and used retrieved chunks; its two turns are the only ones
\* in the Conversation Store, the append of the first request having failed.
C17_Witness ==
    /\ answering.stage = "done"
    /\ answering.request = 2
    /\ answering.trace = Stages
    /\ answering.usedRetrieval
    /\ Len(conversationStore) = 2
    /\ Last(conversationStore) = ConversationTurn("assistant", GeneratedReply)

----------------------------------------------------------------------------
(* RagService *)

\* What callers pass to sendChatMessage.
RagMessages == { <<"q">> }

\* hasDocuments accepting an empty knowledge base
hasDocuments_NonNegative(response) ==
    response.stats # Null /\ response.stats.total_documents >= 0

\* hasDocuments in checkKnowledgeBaseStatus, as the truthiness the
\* BehaviorSubject then holds.
hasDocuments(response) ==
    response.stats # Null /\ response.stats.total_documents > 0

\* The status check started last is still in flight.
CheckPending == [done |-> FALSE, available |-> FALSE]

\* The status check started last has ended and has written available into
\* the flag.
CheckDone(available) == [done |-> TRUE, available |-> available]

\* Requests are kept in issue order, so the check started last is the last
\* of ragStatusHttp for as long as it is in flight.
CheckCompletes(i, available) ==
    latestCheck' = IF ~latestCheck.done /\ i = Len(ragStatusHttp)
                   THEN CheckDone(available)
                   ELSE latestCheck

\* checkKnowledgeBaseStatus from the call to the await: the GET is issued.
checkKnowledgeBaseStatus ==
    /\ ragStatusHttp' = Append(ragStatusHttp, NotHandled)
    /\ latestCheck' = CheckPending

notifyKnowledgeBaseUpdated ==
    /\ Len(ragStatusHttp) < MaxChecks
    /\ checkKnowledgeBaseStatus
    /\ UNCHANGED <<chatVars, searchVars, testVars, serverVars,
                   snackBar, httpResponse, docCount,
                   knowledgeBaseAvailable, ragChatHttp, ragResult, ragCalls,
                   ragPosts, docVars>>

\* The backend handles a GET /documents/stats of RagService.
ServerRagStats(i) ==
    /\ i \in 1..Len(ragStatusHttp)
    /\ ~ragStatusHttp[i].handled
    /\ ragStatusHttp' = [ragStatusHttp EXCEPT ![i] = StatsAnswer(docCount)]
    /\ UNCHANGED <<chatVars, searchVars, testVars, serverVars,
                   snackBar, httpResponse, docCount,
                   knowledgeBaseAvailable, ragChatHttp, ragResult, ragCalls,
                   ragPosts, latestCheck, docVars>>

\* checkKnowledgeBaseStatus after the await, the response has arrived.
CheckStatusNext(i) ==
    /\ i \in 1..Len(ragStatusHttp)
    /\ ragStatusHttp[i].handled
    /\ ragStatusHttp' = Remove(ragStatusHttp, i)
    /\ httpResponse' = Response("/documents/stats", TRUE, StatsBody(ragStatusHttp[i]))
    /\ knowledgeBaseAvailable' = hasDocuments(StatsBody(ragStatusHttp[i]))
    /\ CheckCompletes(i, hasDocuments(StatsBody(ragStatusHttp[i])))
    /\ UNCHANGED <<chatVars, searchVars, testVars, serverVars,
                   snackBar, docCount, ragChatHttp, ragResult,
                   ragCalls, ragPosts, docVars>>

\* CheckStatusError leaving the flag as it is
CheckStatusError_KeepsFlag(i) ==
    /\ i \in 1..Len(ragStatusHttp)
    /\ ragStatusHttp' = Remove(ragStatusHttp, i)
    /\ httpResponse' = Response("/documents/stats", FALSE, Null)
    /\ CheckCompletes(i, knowledgeBaseAvailable)
    /\ UNCHANGED <<chatVars, searchVars, testVars, serverVars,
                   snackBar, docCount, knowledgeBaseAvailable,
                   ragChatHttp, ragResult, ragCalls, ragPosts, docVars>>

\* checkKnowledgeBaseStatus after the await, the request has failed.
CheckStatusError(i) ==
    /\ i \in 1..Len(ragStatusHttp)
    /\ ragStatusHttp' = Remove(ragStatusHttp, i)
    /\ httpResponse' = Response("/documents/stats", FALSE, Null)
    /\ knowledgeBaseAvailable' = FALSE
    /\ CheckCompletes(i, FALSE)
    /\ UNCHANGED <<chatVars, searchVars, testVars, serverVars,
                   snackBar, docCount, ragChatHttp, ragResult,
                   ragCalls, ragPosts, docVars>>

\* From the call to the await: the endpoint is chosen and the POST issued.
sendChatMessage(message) ==
    /\ ragCalls < MaxRagCalls
    /\ ragCalls' = ragCalls + 1
    /\ ragChatHttp' = Append(ragChatHttp,
           [endpoint |-> IF knowledgeBaseAvailable THEN "/chat/rag" ELSE "/chat",
            message |-> message])
    /\ ragPosts' = ragPosts + 1
    /\ UNCHANGED <<chatVars, searchVars, testVars, serverVars,
                   snackBar, httpResponse, docCount,
                   knowledgeBaseAvailable, ragStatusHttp, ragResult,
                   latestCheck, docVars>>

\* sendChatMessage after the await: the response is returned as it is.
RagChatNext(i, response) ==
    /\ i \in 1..Len(ragChatHttp)
    /\ ragChatHttp' = Remove(ragChatHttp, i)
    /\ httpResponse' = Response(ragChatHttp[i].endpoint, TRUE, response)
    /\ ragResult' = [status |-> "resolved", value |-> response]
    /\ UNCHANGED <<chatVars, searchVars, testVars, serverVars,
                   snackBar, docCount, knowledgeBaseAvailable,
                   ragStatusHttp, ragCalls, ragPosts, latestCheck, docVars>>

\* RagChatError returning null in place of throwing, as
\* getKnowledgeBaseStats does
RagChatError_Swallows(i) ==
    /\ i \in 1..Len(ragChatHttp)
    /\ ragChatHttp' = Remove(ragChatHttp, i)
    /\ httpResponse' = Response(ragChatHttp[i].endpoint, FALSE, Null)
    /\ ragResult' = [status |-> "resolved", value |-> Null]
    /\ UNCHANGED <<chatVars, searchVars, testVars, serverVars,
                   snackBar, docCount, knowledgeBaseAvailable,
                   ragStatusHttp, ragCalls, ragPosts, latestCheck, docVars>>

\* sendChatMessage after the await: the error HttpClient reports is logged
\* and thrown again.
RagChatError(i) ==
    /\ i \in 1..Len(ragChatHttp)
    /\ ragChatHttp' = Remove(ragChatHttp, i)
    /\ httpResponse' = Response(ragChatHttp[i].endpoint, FALSE, Null)
    /\ ragResult' = [status |-> "rejected",
                     value |-> Response(ragChatHttp[i].endpoint, FALSE, Null)]
    /\ UNCHANGED <<chatVars, searchVars, testVars, serverVars,
                   snackBar, docCount, knowledgeBaseAvailable,
                   ragStatusHttp, ragCalls, ragPosts, latestCheck, docVars>>

----------------------------------------------------------------------------
(* Properties of RagService *)

\* A step in which sendChatMessage issues its POST.
RagPostIssued == ragPosts' = ragPosts + 1

\* A step in which a status check of RagService completes.
CheckDelivered == Len(ragStatusHttp') < Len(ragStatusHttp)

\* A step in which a POST of sendChatMessage completes.
RagChatDelivered == Len(ragChatHttp') < Len(ragChatHttp)

\* C3: sendChatMessage never posts to /chat/rag at a moment when the
\* knowledge base holds no document.
C3_NoRagOnEmptyKnowledgeBase ==
    [][(RagPostIssued /\ docCount = 0)
         => Last(ragChatHttp').endpoint = "/chat"]_vars

\* A chat message is in flight in Standard mode while the knowledge base is
\* empty and a status check is still under way.
C3_Witness ==
    /\ docCount = 0
    /\ ragChatHttp # <<>>
    /\ Last(ragChatHttp).endpoint = "/chat"
    /\ ragStatusHttp # <<>>

\* C6: knowledgeBaseAvailable is false initially; when a status check
\* completes it is (total_documents > 0) of that check's response, or false
\* when the check failed; sendChatMessage posts to /chat/rag exactly when
\* the flag is true at the call, and to /chat otherwise.
C6_StatsDriveMode ==
    /\ knowledgeBaseAvailable = FALSE
    /\ [][/\ (CheckDelivered /\ httpResponse'.ok)
             => knowledgeBaseAvailable' = (httpResponse'.body.stats.total_documents > 0)
          /\ (CheckDelivered /\ ~httpResponse'.ok)
             => knowledgeBaseAvailable' = FALSE
          /\ RagPostIssued
             => Last(ragChatHttp').endpoint =
                  IF knowledgeBaseAvailable THEN "/chat/rag" ELSE "/chat"]_vars

\* The flag is true after a check that reported a document, and chat
\* messages sent before and after that check are in flight on both paths.
C6_Witness ==
    /\ knowledgeBaseAvailable
    /\ Len(ragChatHttp) = 2
    /\ ragChatHttp[1].endpoint = "/chat"
    /\ ragChatHttp[2].endpoint = "/chat/rag"

\* C7: when a POST /chat/rag fails, the call does not fail: the message is
\* posted to /chat instead.
C7_RagFailureDegrades ==
    [][(RagChatDelivered /\ httpResponse'.url = "/chat/rag" /\ ~httpResponse'.ok)
         => /\ ragResult'.status # "rejected"
            /\ \E k \in 1..Len(ragChatHttp') : ragChatHttp'[k].endpoint = "/chat"]_vars

\* C9: every accepted sendMessage and every sendChatMessage call has issued
\* exactly one POST, whether or not the POST failed.
C9_OnePostPerMessage ==
    /\ chatPosts = chatSends
    /\ ragPosts = ragCalls

\* Both senders have sent all their messages, and the last POST of
\* sendChatMessage has failed.
C9_Witness ==
    /\ chatSends = MaxSends
    /\ chatHttp = <<>>
    /\ ragCalls = MaxRagCalls
    /\ ragChatHttp = <<>>
    /\ ragResult.status = "rejected"

\* C21: when the POST of sendChatMessage fails, the promise is rejected
\* with the error of that POST, it is not resolved, and
\* knowledgeBaseAvailable keeps its value.
C21_FailureRejectsWithError ==
    [][(RagChatDelivered /\ ~httpResponse'.ok)
         => /\ ragResult' = [status |-> "rejected", value |-> httpResponse']
            /\ knowledgeBaseAvailable' = knowledgeBaseAvailable]_vars

\* A POST /chat/rag has failed and has rejected the call while the flag
\* was true, and the flag is still true.
C21_Witness ==
    /\ ragResult # Null
    /\ ragResult.status = "rejected"
    /\ ragResult.value = httpResponse
    /\ httpResponse.url = "/chat/rag"
    /\ ~httpResponse.ok
    /\ knowledgeBaseAvailable

\* C22: once no status check is in flight, knowledgeBaseAvailable holds
\* what the response of the check started last calls for, in whatever
\* order the responses of overlapping checks arrived.
C22_LatestStartedCheckWins ==
    ragStatusHttp = <<>>
        => (latestCheck.done /\ knowledgeBaseAvailable = latestCheck.available)

----------------------------------------------------------------------------
(* DocumentsComponent *)

\* File names are sequences of dot-free segments and dots.
FileNames ==
    { <<"a", ".", "pdf">>, <<"a", ".", "TXT">>, <<"a", ".", "exe">>,
      <<"a", ".", "md", ".", "exe">>, <<"pdf">>, <<"a", ".">> }

MaxFileSize == 10 * 1024 * 1024

FileSizes == { MaxFileSize, MaxFileSize + 1 }

Files == [name : FileNames, size : FileSizes]

supportedFormats == { <<".", "pdf">>, <<".", "txt">>, <<".", "docx">>, <<".", "md">> }

LowerCase ==
    [seg \in {"a", ".", "pdf", "TXT", "txt", "docx", "md", "exe"} |->
        IF seg = "TXT" THEN "txt" ELSE seg]

\* String.prototype.toLowerCase
toLowerCase(s) == [k \in 1..Len(s) |-> LowerCase[s[k]]]

\* name.split('.').pop(): what follows the last dot, the whole name when
\* it has no dot.
RECURSIVE SplitPop(_)
SplitPop(name) ==
    IF name = <<>> THEN <<>>
    ELSE IF Last(name) = "." THEN <<>>
    ELSE SplitPop(SubSeq(name, 1, Len(name) - 1)) \o <<Last(name)>>

fileExtension(file) == <<".">> \o toLowerCase(SplitPop(file.name))

\* onFileSelected dropping the selection when it rejects a file
onFileSelected_ResetsOnReject(file) ==
    IF fileExtension(file) \notin supportedFormats
    THEN /\ snackBar' = Notice("Unsupported file type.", "error-snackbar")
         /\ selectedFile' = Null
         /\ UNCHANGED <<chatVars, searchVars, testVars, serverVars,
                        httpResponse, docCount, ragVars,
                        isUploading, uploadHttp, stats, isLoadingStats, statsHttp>>
    ELSE IF file.size > MaxFileSize
    THEN /\ snackBar' = Notice("File too large. Maximum size is 10MB.", "error-snackbar")
         /\ selectedFile' = Null
         /\ UNCHANGED <<chatVars, searchVars, testVars, serverVars,
                        httpResponse, docCount, ragVars,
                        isUploading, uploadHttp, stats, isLoadingStats, statsHttp>>
    ELSE /\ selectedFile' = file
         /\ UNCHANGED <<chatVars, searchVars, testVars, serverVars,
                        snackBar, httpResponse, docCount, ragVars,
                        isUploading, uploadHttp, stats, isLoadingStats, statsHttp>>

\* onFileSelected with a file in the event
onFileSelected(file) ==
    IF fileExtension(file) \notin supportedFormats
    THEN /\ snackBar' = Notice("Unsupported file type.", "error-snackbar")
         /\ UNCHANGED <<chatVars, searchVars, testVars, serverVars,
                        httpResponse, docCount, ragVars, docVars>>
    ELSE IF file.size > MaxFileSize
    THEN /\ snackBar' = Notice("File too large. Maximum size is 10MB.", "error-snackbar")
         /\ UNCHANGED <<chatVars, searchVars, testVars, serverVars,
                        httpResponse, docCount, ragVars, docVars>>
    ELSE /\ selectedFile' = file
         /\ UNCHANGED <<chatVars, searchVars, testVars, serverVars,
                        snackBar, httpResponse, docCount, ragVars,
                        isUploading, uploadHttp, stats, isLoadingStats, statsHttp>>

\* onFileSelected with no file in the event
onFileSelectedNone == UNCHANGED vars

\* loadStats from the call to the await: the GET is issued.
loadStats ==
    /\ isLoadingStats' = TRUE
    /\ statsHttp' = Append(statsHttp, NotHandled)

\* From the call to the await: the POST is issued.
uploadDocument ==
    IF selectedFile = Null
    THEN UNCHANGED vars
    ELSE /\ Len(uploadHttp) < MaxUploads
         /\ isUploading' = TRUE
         /\ uploadHttp' = Append(uploadHttp, [file |-> selectedFile, handled |-> FALSE])
         /\ UNCHANGED <<chatVars, searchVars, testVars, serverVars,
                        snackBar, httpResponse, docCount, ragVars,
                        selectedFile, stats, isLoadingStats, statsHttp>>

\* The backend ingests an uploaded document.
ServerUpload(i) ==
    /\ i \in 1..Len(uploadHttp)
    /\ ~uploadHttp[i].handled
    /\ docCount < MaxUploadedDocs
    /\ docCount' = docCount + 1
    /\ uploadHttp' = [uploadHttp EXCEPT ![i].handled = TRUE]
    /\ UNCHANGED <<chatVars, searchVars, testVars, serverVars,
                   snackBar, httpResponse, ragVars, selectedFile,
                   isUploading, stats, isLoadingStats, statsHttp>>

\* uploadDocument after the await, the upload has succeeded.  Reading
\* this.selectedFile.name throws when selectedFile is null by now; the
\* catch block then shows the failure notice.  Otherwise the form is reset
\* and loadStats and ragService.notifyKnowledgeBaseUpdated run up to their
\* awaits.  The backend ingests at most MaxUploadedDocs documents, which
\* bounds the requests started here.
UploadNext(i) ==
    /\ i \in 1..Len(uploadHttp)
    /\ uploadHttp[i].handled
    /\ uploadHttp' = Remove(uploadHttp, i)
    /\ httpResponse' = Response("/documents/upload", TRUE, Null)
    /\ isUploading' = FALSE
    /\ IF selectedFile = Null
       THEN /\ snackBar' = Notice("Failed to upload document", "error-snackbar")
            /\ UNCHANGED <<selectedFile, isLoadingStats, statsHttp, ragStatusHttp,
                           latestCheck>>
       ELSE /\ snackBar' = Notice("Successfully uploaded", "success-snackbar")
            /\ selectedFile' = Null
            /\ loadStats
            /\ checkKnowledgeBaseStatus
    /\ UNCHANGED <<chatVars, searchVars, testVars, serverVars,
                   docCount, knowledgeBaseAvailable, ragChatHttp,
                   ragResult, ragCalls, ragPosts, stats>>

\* What error.error?.detail can be.
ErrorDetails == { Undefined, <<"detail">> }

\* UploadError resetting the form as the success path does
UploadError_ResetsForm(i, detail) ==
    /\ i \in 1..Len(uploadHttp)
    /\ uploadHttp' = Remove(uploadHttp, i)
    /\ httpResponse' = Response("/documents/upload", FALSE, [detail |-> detail])
    /\ isUploading' = FALSE
    /\ selectedFile' = Null
    /\ snackBar' = IF detail # Undefined
                   THEN Notice("detail", "error-snackbar")
                   ELSE Notice("Failed to upload document", "error-snackbar")
    /\ UNCHANGED <<chatVars, searchVars, testVars, serverVars,
                   docCount, ragVars, stats, isLoadingStats, statsHttp>>

\* uploadDocument after the await, the upload has failed.
UploadError(i, detail) ==
    /\ i \in 1..Len(uploadHttp)
    /\ uploadHttp' = Remove(uploadHttp, i)
    /\ httpResponse' = Response("/documents/upload", FALSE, [detail |-> detail])
    /\ isUploading' = FALSE
    /\ snackBar' = IF detail # Undefined
                   THEN Notice("detail", "error-snackbar")
                   ELSE Notice("Failed to upload document", "error-snackbar")
    /\ UNCHANGED <<chatVars, searchVars, testVars, serverVars,
                   docCount, ragVars, selectedFile, stats,
                   isLoadingStats, statsHttp>>

\* The backend handles a GET /documents/stats of DocumentsComponent.
ServerDocStats(i) ==
    /\ i \in 1..Len(statsHttp)
    /\ ~statsHttp[i].handled
    /\ statsHttp' = [statsHttp EXCEPT ![i] = StatsAnswer(docCount)]
    /\ UNCHANGED <<chatVars, searchVars, testVars, serverVars,
                   snackBar, httpResponse, docCount, ragVars,
                   selectedFile, isUploading, uploadHttp, stats, isLoadingStats>>

\* loadStats after the await, the response has arrived.
LoadStatsNext(i) ==
    /\ i \in 1..Len(statsHttp)
    /\ statsHttp[i].handled
    /\ statsHttp' = Remove(statsHttp, i)
    /\ httpResponse' = Response("/documents/stats", TRUE, StatsBody(statsHttp[i]))
    /\ stats' = StatsBody(statsHttp[i]).stats
    /\ isLoadingStats' = FALSE
    /\ UNCHANGED <<chatVars, searchVars, testVars, serverVars,
                   snackBar, docCount, ragVars, selectedFile,
                   isUploading, uploadHttp>>

\* loadStats after the await, the request has failed.
LoadStatsError(i) ==
    /\ i \in 1..Len(statsHttp)
    /\ statsHttp' = Remove(statsHttp, i)
    /\ httpResponse' = Response("/documents/stats", FALSE, Null)
    /\ snackBar' = Notice("Failed to load knowledge base stats.", "error-snackbar")
    /\ isLoadingStats' = FALSE
    /\ UNCHANGED <<chatVars, searchVars, testVars, serverVars,
                   docCount, ragVars, selectedFile, isUploading,
                   uploadHttp, stats>>

\* What the user can have typed into the search box.
SearchQueries == { <<>>, <<" ">>, <<"a">>, <<"a", " ", "b">> }

\* encodeURIComponent on the characters of SearchQueries
encodeURIComponent(s) == [k \in 1..Len(s) |-> IF s[k] = " " THEN "%20" ELSE s[k]]

\* A DocumentResult of the response to GET /documents/search.
DocumentResult == [content |-> <<"c">>, source |-> <<"a", ".", "pdf">>]

\* The results the backend can answer a search with: none on an empty
\* knowledge base, none or some otherwise.
SearchAnswers(n) == IF n = 0 THEN { <<>> } ELSE { <<>>, <<DocumentResult>> }

\* The user edits the search box (two-way binding on searchQuery).
TypeSearchQuery(s) ==
    /\ searchQuery' = s
    /\ UNCHANGED <<chatVars, snackBar, httpResponse, docCount, ragVars, docVars, testVars,
                   searchResults, isSearching, searchHttp, searchCleared,
                   serverVars>>

\* searchDocuments from the call to the await: the GET is issued.
searchDocuments ==
    IF Trim(searchQuery) = <<>>
    THEN UNCHANGED vars
    ELSE /\ Len(searchHttp) < MaxSearches
         /\ isSearching' = TRUE
         /\ searchResults' = <<>>
         /\ searchCleared' = FALSE
         /\ searchHttp' = Append(searchHttp,
                [method |-> "GET", url |-> "/documents/search",
                 query |-> encodeURIComponent(searchQuery), limit |-> 10,
                 handled |-> FALSE, results |-> <<>>])
         /\ UNCHANGED <<chatVars, snackBar, httpResponse, docCount, ragVars,
                        docVars, testVars, searchQuery, serverVars>>

\* The backend handles a GET /documents/search: it reads the knowledge
\* base and changes nothing.
ServerSearch(i, results) ==
    /\ i \in 1..Len(searchHttp)
    /\ ~searchHttp[i].handled
    /\ results \in SearchAnswers(docCount)
    /\ searchHttp' = [searchHttp EXCEPT ![i].handled = TRUE, ![i].results = results]
    /\ UNCHANGED <<chatVars, snackBar, httpResponse, docCount, ragVars, docVars, testVars,
                   searchQuery, searchResults, isSearching, searchCleared,
                   serverVars>>

\* SearchNext reloading the stats after a search
SearchNext_ReloadsStats(i) ==
    /\ i \in 1..Len(searchHttp)
    /\ searchHttp[i].handled
    /\ searchHttp' = Remove(searchHttp, i)
    /\ httpResponse' = Response("/documents/search", TRUE,
                                [results |-> searchHttp[i].results])
    /\ searchResults' = searchHttp[i].results
    /\ snackBar' = IF Len(searchHttp[i].results) = 0
                   THEN Notice("No relevant documents found.", "")
                   ELSE snackBar
    /\ isSearching' = FALSE
    /\ isLoadingStats' = TRUE
    /\ statsHttp' = IF Len(statsHttp) < MaxSearches
                    THEN Append(statsHttp, NotHandled) ELSE statsHttp
    /\ UNCHANGED <<chatVars, docCount, ragVars, selectedFile, isUploading,
                   uploadHttp, stats, testVars, searchQuery, searchCleared,
                   serverVars>>

\* SearchNext treating an empty result as a failure
SearchNext_EmptyIsError(i) ==
    /\ i \in 1..Len(searchHttp)
    /\ searchHttp[i].handled
    /\ searchHttp' = Remove(searchHttp, i)
    /\ httpResponse' = Response("/documents/search", TRUE,
                                [results |-> searchHttp[i].results])
    /\ searchResults' = searchHttp[i].results
    /\ snackBar' = IF Len(searchHttp[i].results) = 0
                   THEN Notice("Search failed. Please try again.", "error-snackbar")
                   ELSE snackBar
    /\ isSearching' = FALSE
    /\ UNCHANGED <<chatVars, docCount, ragVars, docVars, testVars, searchQuery,
                   searchCleared, serverVars>>

\* searchDocuments after the await, the response has arrived
SearchNext(i) ==
    /\ i \in 1..Len(searchHttp)
    /\ searchHttp[i].handled
    /\ searchHttp' = Remove(searchHttp, i)
    /\ httpResponse' = Response("/documents/search", TRUE,
                                [results |-> searchHttp[i].results])
    /\ searchResults' = searchHttp[i].results
    /\ snackBar' = IF Len(searchHttp[i].results) = 0
                   THEN Notice("No relevant documents found.", "")
                   ELSE snackBar
    /\ isSearching' = FALSE
    /\ UNCHANGED <<chatVars, docCount, ragVars, docVars, testVars, searchQuery,
                   searchCleared, serverVars>>

\* searchDocuments after the await, the request has failed
SearchError(i) ==
    /\ i \in 1..Len(searchHttp)
    /\ searchHttp' = Remove(searchHttp, i)
    /\ httpResponse' = Response("/documents/search", FALSE, Null)
    /\ snackBar' = Notice("Search failed. Please try again.", "error-snackbar")
    /\ isSearching' = FALSE
    /\ UNCHANGED <<chatVars, docCount, ragVars, docVars, testVars, searchQuery,
                   searchResults, searchCleared, serverVars>>

clearSearch ==
    /\ searchQuery' = <<>>
    /\ searchResults' = <<>>
    /\ searchCleared' = TRUE
    /\ UNCHANGED <<chatVars, snackBar, httpResponse, docCount, ragVars, docVars, testVars,
                   isSearching, searchHttp, serverVars>>

\* What the user can have typed into the test query box.
TestQueries == { <<>>, <<" ">>, <<"a">> }

\* The diagnostic payloads POST /documents/test-query can answer with.
TestPayloads == { [answer |-> <<"r">>, context_used |-> TRUE],
                  [answer |-> <<"r">>, context_used |-> FALSE] }

\* The user edits the test query box (two-way binding on testQuery).
TypeTestQuery(s) ==
    /\ testQuery' = s
    /\ UNCHANGED <<chatVars, snackBar, httpResponse, docCount, ragVars, docVars,
                   searchVars, testResult, isTestingQuery, testHttp, serverVars>>

\* testRAGQuery from the call to the await: the POST is issued.
testRAGQuery ==
    IF Trim(testQuery) = <<>>
    THEN UNCHANGED vars
    ELSE /\ Len(testHttp) < MaxTestQueries
         /\ isTestingQuery' = TRUE
         /\ testResult' = Null
         /\ testHttp' = Append(testHttp,
                [method |-> "POST", url |-> "/documents/test-query",
                 query |-> testQuery, use_context |-> "true"])
         /\ UNCHANGED <<chatVars, snackBar, httpResponse, docCount, ragVars,
                        docVars, searchVars, testQuery, serverVars>>

\* testRAGQuery after the await, the response has arrived
TestQueryNext(i, payload) ==
    /\ i \in 1..Len(testHttp)
    /\ testHttp' = Remove(testHttp, i)
    /\ httpResponse' = Response("/documents/test-query", TRUE, payload)
    /\ testResult' = payload
    /\ isTestingQuery' = FALSE
    /\ UNCHANGED <<chatVars, snackBar, docCount, ragVars, docVars, searchVars,
                   testQuery, serverVars>>

\* TestQueryError without the finally block
TestQueryError_StaysBusy(i) ==
    /\ i \in 1..Len(testHttp)
    /\ testHttp' = Remove(testHttp, i)
    /\ httpResponse' = Response("/documents/test-query", FALSE, Null)
    /\ snackBar' = Notice("Test query failed. Please try again.", "error-snackbar")
    /\ UNCHANGED <<chatVars, docCount, ragVars, docVars, searchVars,
                   testQuery, testResult, isTestingQuery, serverVars>>

\* testRAGQuery after the await, the request has failed
TestQueryError(i) ==
    /\ i \in 1..Len(testHttp)
    /\ testHttp' = Remove(testHttp, i)
    /\ httpResponse' = Response("/documents/test-query", FALSE, Null)
    /\ snackBar' = Notice("Test query failed. Please try again.", "error-snackbar")
    /\ isTestingQuery' = FALSE
    /\ UNCHANGED <<chatVars, docCount, ragVars, docVars, searchVars,
                   testQuery, testResult, serverVars>>

----------------------------------------------------------------------------
(* Properties of DocumentsComponent *)

\* A name that ends with a dot followed by pdf, txt, docx or md, in any case.
HasSupportedType(name) ==
    /\ Len(name) >= 2
    /\ name[Len(name) - 1] = "."
    /\ LowerCase[Last(name)] \in {"pdf", "txt", "docx", "md"}

\* C5: every file in a request to /documents/upload is of one of the four
\* supported types and is at most 10 MiB large.
C5_OnlyValidUploads ==
    \A i \in 1..Len(uploadHttp) :
        /\ HasSupportedType(uploadHttp[i].file.name)
        /\ uploadHttp[i].file.size <= 10 * 1024 * 1024

\* A step in which a POST /documents/upload completes.
UploadDelivered == Len(uploadHttp') < Len(uploadHttp)

\* C23: every successful response to POST /documents/upload is followed by
\* the success path: selectedFile is reset to null, loadStats and
\* notifyKnowledgeBaseUpdated are called and no failure notice is shown,
\* also when another upload or a selection happened while it was in flight.
C23_SuccessTakesSuccessPath ==
    [][(UploadDelivered /\ httpResponse'.ok)
         => /\ selectedFile' = Null
            /\ statsHttp' = Append(statsHttp, NotHandled)
            /\ ragStatusHttp' = Append(ragStatusHttp, NotHandled)
            /\ snackBar'.panelClass = "success-snackbar"]_vars

\* C24: isUploading is true whenever an upload is in flight.
C24_UploadingWhileOutstanding ==
    uploadHttp # <<>> => isUploading

\* C25: when neither DocumentsComponent nor RagService has a GET
\* /documents/stats in flight, knowledgeBaseAvailable is true exactly when
\* stats is not null and its total_documents is greater than 0.
C25_FlagAgreesWithStatsAtRest ==
    (statsHttp = <<>> /\ ragStatusHttp = <<>>)
        => (knowledgeBaseAvailable <=> (stats # Null /\ stats.total_documents > 0))

\* The notices with which onFileSelected rejects a file.
RejectionNotices ==
    { Notice("Unsupported file type.", "error-snackbar"),
      Notice("File too large. Maximum size is 10MB.", "error-snackbar") }

\* C26: a selection that is rejected, for its extension, for its size or
\* because the event carries no file, leaves selectedFile as it was: a
\* step that shows a rejection notice keeps selectedFile, and outside the
\* completion of an upload selectedFile changes only to a file that has
\* passed both validations, without a notice.
C26_RejectedSelectionKeepsFile ==
    [][/\ (snackBar' # snackBar /\ snackBar' \in RejectionNotices)
             => selectedFile' = selectedFile
       /\ (selectedFile' # selectedFile /\ ~UploadDelivered)
             => /\ selectedFile' # Null
                /\ fileExtension(selectedFile') \in supportedFormats
                /\ selectedFile'.size <= MaxFileSize
                /\ snackBar' = snackBar]_vars

\* A file is selected and no upload has been made, and the notice showing
\* is that of a selection rejected for its size.
C26_Witness ==
    /\ selectedFile # Null
    /\ uploadHttp = <<>>
    /\ httpResponse = NoResponse
    /\ snackBar = Notice("File too large. Maximum size is 10MB.", "error-snackbar")

\* C27: the selected file always has a name that ends with a dot followed
\* by pdf, txt, docx or md in any case; a name without a dot is never
\* selected.
C27_OnlySupportedNamesSelected ==
    selectedFile # Null => HasSupportedType(selectedFile.name)

\* C28: from clearSearch until the next search is started, searchResults is
\* empty, also when a search was in flight at the time of clearSearch.
C28_ClearedStaysEmpty ==
    searchCleared => searchResults = <<>>

\* C30: when an upload fails, selectedFile keeps its value, neither
\* loadStats nor notifyKnowledgeBaseUpdated is called, the notice is the
\* detail of the server's error or else the default failure notice, and
\* isUploading is false.
C30_FailedUploadKeepsForm ==
    [][(UploadDelivered /\ ~httpResponse'.ok)
         => /\ selectedFile' = selectedFile
            /\ statsHttp' = statsHttp
            /\ ragStatusHttp' = ragStatusHttp
            /\ snackBar' =
                 Notice(IF httpResponse'.body.detail # Undefined
                        THEN "detail" ELSE "Failed to upload document",
                        "error-snackbar")
            /\ isUploading' = FALSE]_vars

\* An upload has failed with a detail from the server, which is the notice
\* showing; the file is still selected and only the GETs of the
\* construction are in flight.
C30_Witness ==
    /\ httpResponse = Response("/documents/upload", FALSE, [detail |-> <<"detail">>])
    /\ snackBar = Notice("detail", "error-snackbar")
    /\ selectedFile # Null
    /\ ~isUploading
    /\ uploadHttp = <<>>
    /\ Len(statsHttp) = 1
    /\ Len(ragStatusHttp) = 1

\* C31: no busy flag of DocumentsComponent is stuck: isUploading,
\* isSearching, isTestingQuery and isLoadingStats are each false whenever
\* no request of their kind is in flight, after success and after failure.
C31_NoBusyFlagStuck ==
    /\ uploadHttp = <<>> => ~isUploading
    /\ searchHttp = <<>> => ~isSearching
    /\ testHttp = <<>> => ~isTestingQuery
    /\ statsHttp = <<>> => ~isLoadingStats

\* Two uploads were in flight; one has failed and the other has succeeded
\* with the failure path of a form already reset.  The stats have been
\* loaded, no upload and no stats request is in flight, and isUploading and
\* isLoadingStats are false.
C31_Witness ==
    /\ uploadHttp = <<>>
    /\ statsHttp = <<>>
    /\ ~isUploading
    /\ ~isLoadingStats
    /\ docCount = 2
    /\ stats # Null
    /\ httpResponse.url = "/documents/upload"
    /\ httpResponse.ok
    /\ snackBar = Notice("Failed to upload document", "error-snackbar")

\* A step of a search request: it is issued, handled or completed.
SearchStep == searchHttp' # searchHttp

\* C12: a search issues only a GET /documents/search, and no step of it,
\* in the client or in the backend, changes the knowledge base, stats,
\* selectedFile, the upload state, the availability flag, the search query
\* or any other request in flight.
C12_SearchIsReadOnly ==
    [][SearchStep
         => /\ UNCHANGED <<docCount, vectorIndex, documents, stats,
                           isLoadingStats, statsHttp, selectedFile, isUploading,
                           uploadHttp, knowledgeBaseAvailable, ragStatusHttp,
                           ragChatHttp, chatHttp, searchQuery>>
            /\ Len(searchHttp') > Len(searchHttp)
                 => /\ searchHttp' = Append(searchHttp, Last(searchHttp'))
                    /\ Last(searchHttp').method = "GET"
                    /\ Last(searchHttp').url = "/documents/search"]_vars

\* A search over a non-empty knowledge base has returned results while a
\* file was selected for upload.
C12_Witness ==
    /\ httpResponse.url = "/documents/search"
    /\ httpResponse.ok
    /\ searchResults # <<>>
    /\ ~isSearching
    /\ selectedFile # Null
    /\ docCount > 0

\* C13: a search whose response carries no results ends through the
\* success path: searchResults is empty, isSearching is false and the
\* notice is the informational one, not the failure notice.
C13_EmptyResultIsNoError ==
    [][(Len(searchHttp') < Len(searchHttp) /\ httpResponse'.ok
            /\ httpResponse'.body.results = <<>>)
         => /\ searchResults' = <<>>
            /\ isSearching' = FALSE
            /\ snackBar' = Notice("No relevant documents found.", "")]_vars

\* A search over the empty knowledge base has ended with no results and
\* the informational notice.
C13_Witness ==
    /\ docCount = 0
    /\ httpResponse = Response("/documents/search", TRUE, [results |-> <<>>])
    /\ searchResults = <<>>
    /\ ~isSearching
    /\ searchHttp = <<>>
    /\ snackBar.text = "No relevant documents found."

----------------------------------------------------------------------------
(* Specifications *)

\* The components once Angular has created them and run ngOnInit, and the
\* backend with an empty knowledge base and an empty Conversation Store;
\* the input box and the ingest call aside.
InitExceptInputs ==
    /\ messages = <<>>
    /\ isLoading = FALSE
    /\ chatHttp = <<>>
    /\ chatSends = 0
    /\ chatPosts = 0
    /\ scrollTimers = 0
    /\ snackBar = NoNotice
    /\ httpResponse = NoResponse
    /\ docCount = 0
    /\ knowledgeBaseAvailable = FALSE
    /\ ragStatusHttp = <<NotHandled>>      \* the constructor's check
    /\ ragChatHttp = <<>>
    /\ ragResult = Null
    /\ ragCalls = 0
    /\ ragPosts = 0
    /\ latestCheck = CheckPending
    /\ selectedFile = Null
    /\ isUploading = FALSE
    /\ uploadHttp = <<>>
    /\ stats = Null
    /\ isLoadingStats = TRUE
    /\ statsHttp = <<NotHandled>>          \* ngOnInit's loadStats
    /\ searchQuery = <<>>
    /\ searchResults = <<>>
    /\ isSearching = FALSE
    /\ searchHttp = <<>>
    /\ searchCleared = FALSE
    /\ testQuery = <<>>
    /\ testResult = Null
    /\ isTestingQuery = FALSE
    /\ testHttp = <<>>
    /\ vectorIndex = <<>>
    /\ documents = <<>>
    /\ retrieval = NoRetrieval
    /\ answering = NoAnswering
    /\ conversationStore = <<>>

InitExceptIngestion == InitExceptInputs /\ userInput = <<>>

Init == InitExceptIngestion /\ ingestion = NoIngestion

\* The user has typed into the input box and has done nothing else yet.
GuardInit ==
    /\ InitExceptInputs
    /\ userInput \in Inputs
    /\ ingestion = NoIngestion

\* The splitter's inputs: every text length, chunk size and overlap below
\* the bounds, and the scenario of a text of 2400 characters split with
\* ChunkSize and Overlap.
SplitInputs ==
    { in \in [textLength : 0..MaxTextLength, chunkSize : 1..MaxChunkSize,
              overlap : 0..(MaxChunkSize - 1)] : in.overlap < in.chunkSize }
    \cup { [textLength |-> 2400, chunkSize |-> ChunkSize, overlap |-> Overlap] }

\* An ingest call has just been made with one of the splitter's inputs.
SplitInit ==
    /\ InitExceptIngestion
    /\ \E in \in SplitInputs :
         ingestion = [stage |-> "extracting", doc |-> 1,
                      textLength |-> in.textLength, chunkSize |-> in.chunkSize,
                      overlap |-> in.overlap, offsets |-> <<>>, error |-> ""]

ChatNext ==
    \/ \E s \in Inputs : TypeInput(s)
    \/ sendMessage
    \/ \E i \in 1..Len(chatHttp) : \E res \in ChatResponses : ChatPostNext(i, res)
    \/ \E i \in 1..Len(chatHttp) : ChatPostError(i)
    \/ clearConversation
    \/ \E i \in 1..Len(chatHttp) : ClearNext(i)
    \/ \E i \in 1..Len(chatHttp) : ClearError(i)
    \/ ScrollTimeout

RagNext ==
    \/ notifyKnowledgeBaseUpdated
    \/ \E i \in 1..Len(ragStatusHttp) : ServerRagStats(i)
    \/ \E i \in 1..Len(ragStatusHttp) : CheckStatusNext(i)
    \/ \E i \in 1..Len(ragStatusHttp) : CheckStatusError(i)
    \/ \E m \in RagMessages : sendChatMessage(m)
    \/ \E i \in 1..Len(ragChatHttp) : \E res \in ChatResponses : RagChatNext(i, res)
    \/ \E i \in 1..Len(ragChatHttp) : RagChatError(i)
    \/ BackendIngest

DocNext ==
    \/ \E f \in Files : onFileSelected(f)
    \/ onFileSelectedNone
    \/ uploadDocument
    \/ docCount < MaxDocs /\ \E i \in 1..Len(uploadHttp) : ServerUpload(i)
    \/ \E i \in 1..Len(uploadHttp) : UploadNext(i)
    \/ \E i \in 1..Len(uploadHttp) : \E d \in ErrorDetails : UploadError(i, d)
    \/ \E i \in 1..Len(statsHttp) : ServerDocStats(i)
    \/ \E i \in 1..Len(statsHttp) : LoadStatsNext(i)
    \/ \E i \in 1..Len(statsHttp) : LoadStatsError(i)
    \/ \E i \in 1..Len(ragStatusHttp) : ServerRagStats(i)
    \/ \E i \in 1..Len(ragStatusHttp) : CheckStatusNext(i)
    \/ \E i \in 1..Len(ragStatusHttp) : CheckStatusError(i)

\* The search tab of DocumentsComponent, with selections of files and the
\* backend ingesting documents in between.
SearchTabNext ==
    \/ \E f \in Files : onFileSelected(f)
    \/ \E s \in SearchQueries : TypeSearchQuery(s)
    \/ searchDocuments
    \/ \E i \in 1..Len(searchHttp) : \E r \in SearchAnswers(docCount) : ServerSearch(i, r)
    \/ \E i \in 1..Len(searchHttp) : SearchNext(i)
    \/ \E i \in 1..Len(searchHttp) : SearchError(i)
    \/ clearSearch
    \/ BackendIngest

\* The Document Ingestor and the Retriever over the Vector Index.
KnowledgeBaseNext ==
    \/ \E n \in TextLengths : ingest(n, ChunkSize, Overlap)
    \/ ExtractNext
    \/ ExtractError
    \/ \E e \in Embeddings : EmbedNext(e)
    \/ EmbedError
    \/ Rollback
    \/ IngestReturn
    \/ \E q \in Embeddings : \E k \in 0..MaxTopK : \E t \in 0..MaxEmbedding :
          Retrieve(q, k, t)

\* No answer call has been made yet.
AnsweringAtRest == answering = NoAnswering

\* The RAG Orchestrator over a knowledge base that documents are ingested
\* into before its first request.
AnswerNext ==
    \/ \E t \in UserTexts : answer(t)
    \/ ModeSelect
    \/ \E q \in Embeddings : RetrieveNext(q)
    \/ RetrieveError
    \/ Assemble
    \/ GenerateNext
    \/ GenerateError
    \/ Persist
    \/ PersistError
    \/ AnsweringAtRest /\ \E n \in TextLengths : ingest(n, ChunkSize, Overlap)
    \/ AnsweringAtRest /\ ExtractNext
    \/ AnsweringAtRest /\ ExtractError
    \/ AnsweringAtRest /\ \E e \in Embeddings : EmbedNext(e)
    \/ AnsweringAtRest /\ EmbedError
    \/ AnsweringAtRest /\ Rollback
    \/ AnsweringAtRest /\ IngestReturn

\* The test query tab of DocumentsComponent.
TestTabNext ==
    \/ \E s \in TestQueries : TypeTestQuery(s)
    \/ testRAGQuery
    \/ \E i \in 1..Len(testHttp) : \E r \in TestPayloads : TestQueryNext(i, r)
    \/ \E i \in 1..Len(testHttp) : TestQueryError(i)

Next ==
    \/ ChatNext \/ RagNext \/ DocNext \/ SearchTabNext \/ TestTabNext
    \/ KnowledgeBaseNext \/ AnswerNext

Spec == Init /\ [][Next]_vars

\* ChatComponent alone, DocumentsComponent and RagService at rest.
ChatSpec == Init /\ [][ChatNext]_vars

\* ChatComponent with its input box left alone: the box holds what the user
\* typed before the first call, and only sendMessage changes it.  A step
\* that changes userInput is then a step of sendMessage.
GuardNext ==
    \/ sendMessage
    \/ \E i \in 1..Len(chatHttp) : \E res \in ChatResponses : ChatPostNext(i, res)
    \/ \E i \in 1..Len(chatHttp) : ChatPostError(i)
    \/ clearConversation
    \/ \E i \in 1..Len(chatHttp) : ClearNext(i)
    \/ \E i \in 1..Len(chatHttp) : ClearError(i)
    \/ ScrollTimeout

GuardSpec == GuardInit /\ [][GuardNext]_vars

\* The earlier ChatComponent alone.
EarlierChatNext ==
    \/ \E s \in Inputs : TypeInput(s)
    \/ EarlierSendMessage
    \/ \E i \in 1..Len(chatHttp) : \E res \in ChatResponses : EarlierPostNext(i, res)
    \/ \E i \in 1..Len(chatHttp) : EarlierPostError(i)

EarlierChatSpec == Init /\ [][EarlierChatNext]_vars

\* The same, with the timers of scrollToBottom firing.  Nothing makes the
\* backend answer a request, and no step of the client ends a request that
\* has no answer.
FairChatSpec == ChatSpec /\ WF_vars(ScrollTimeout)

\* RagService and the backend; documents reach the knowledge base through
\* BackendIngest.
RagSpec == Init /\ [][RagNext]_vars

\* ChatComponent and RagService, the two senders of chat messages.  They
\* share no state that either reads, so each runs while the other is at
\* rest: ChatComponent while RagService has not been called, RagService
\* while ChatComponent is idle with an empty conversation.
ChatAtRest ==
    /\ messages = <<>>
    /\ userInput = <<>>
    /\ ~isLoading
    /\ chatHttp = <<>>
    /\ scrollTimers = 0

RagAtRest ==
    /\ docCount = 0
    /\ ~knowledgeBaseAvailable
    /\ ragStatusHttp = <<NotHandled>>
    /\ ragChatHttp = <<>>
    /\ ragResult = Null
    /\ ragCalls = 0

SendersNext ==
    \/ RagAtRest /\ \E s \in Inputs : TypeInput(s)
    \/ RagAtRest /\ sendMessage
    \/ RagAtRest /\ \E i \in 1..Len(chatHttp) : \E res \in ChatResponses : ChatPostNext(i, res)
    \/ RagAtRest /\ \E i \in 1..Len(chatHttp) : ChatPostError(i)
    \/ RagAtRest /\ clearConversation
    \/ RagAtRest /\ \E i \in 1..Len(chatHttp) : ClearNext(i)
    \/ RagAtRest /\ \E i \in 1..Len(chatHttp) : ClearError(i)
    \/ RagAtRest /\ ScrollTimeout
    \/ ChatAtRest /\ notifyKnowledgeBaseUpdated
    \/ ChatAtRest /\ \E i \in 1..Len(ragStatusHttp) : ServerRagStats(i)
    \/ ChatAtRest /\ \E i \in 1..Len(ragStatusHttp) : CheckStatusNext(i)
    \/ ChatAtRest /\ \E i \in 1..Len(ragStatusHttp) : CheckStatusError(i)
    \/ ChatAtRest /\ \E m \in RagMessages : sendChatMessage(m)
    \/ ChatAtRest /\ \E i \in 1..Len(ragChatHttp) : \E res \in ChatResponses : RagChatNext(i, res)
    \/ ChatAtRest /\ \E i \in 1..Len(ragChatHttp) : RagChatError(i)
    \/ ChatAtRest /\ BackendIngest

SendersSpec == Init /\ [][SendersNext]_vars

SearchSpec == Init /\ [][SearchTabNext]_vars

KnowledgeBaseSpec == Init /\ [][KnowledgeBaseNext]_vars

AnswerSpec == Init /\ [][AnswerNext]_vars

\* The extraction and split of one ingest call, for every input of the
\* splitter.
SplitSpec == SplitInit /\ [][ExtractNext \/ ExtractError]_vars

\* DocumentsComponent, the backend and the status checks of RagService that
\* its uploads start, with a knowledge base of at most MaxDocs documents.
DocSpec == Init /\ [][DocNext]_vars

\* The upload form with loadStats, the search tab and the test query tab
\* as ngOnInit leaves them.
UploadAtRest ==
    /\ selectedFile = Null
    /\ ~isUploading
    /\ uploadHttp = <<>>
    /\ stats = Null
    /\ statsHttp = <<NotHandled>>
    /\ docCount = 0

SearchAtRest ==
    /\ searchQuery = <<>>
    /\ searchResults = <<>>
    /\ ~isSearching
    /\ searchHttp = <<>>

TestAtRest ==
    /\ testQuery = <<>>
    /\ testResult = Null
    /\ ~isTestingQuery
    /\ testHttp = <<>>

\* The files selected where only the busy flags matter: one name that is
\* accepted and one that is rejected, in both sizes.
BusyFiles ==
    { f \in Files : f.name \in { <<"a", ".", "pdf">>, <<"a", ".", "exe">> } }

\* The four kinds of request of DocumentsComponent.  Each busy flag is
\* written only by the operation of its own kind, and the kinds share no
\* state but the stats that an upload reloads, so the upload form with
\* loadStats, the search tab and the test query tab each run while the
\* other two are at rest; within a kind several requests are in flight at
\* a time.
BusyNext ==
    \/ SearchAtRest /\ TestAtRest /\ \E f \in BusyFiles : onFileSelected(f)
    \/ SearchAtRest /\ TestAtRest /\ uploadDocument
    \/ SearchAtRest /\ TestAtRest /\ \E i \in 1..Len(uploadHttp) : ServerUpload(i)
    \/ SearchAtRest /\ TestAtRest /\ \E i \in 1..Len(uploadHttp) : UploadNext(i)
    \/ SearchAtRest /\ TestAtRest
          /\ \E i \in 1..Len(uploadHttp) : \E d \in ErrorDetails : UploadError(i, d)
    \/ SearchAtRest /\ TestAtRest /\ \E i \in 1..Len(statsHttp) : ServerDocStats(i)
    \/ SearchAtRest /\ TestAtRest /\ \E i \in 1..Len(statsHttp) : LoadStatsNext(i)
    \/ SearchAtRest /\ TestAtRest /\ \E i \in 1..Len(statsHttp) : LoadStatsError(i)
    \/ UploadAtRest /\ TestAtRest /\ \E s \in SearchQueries : TypeSearchQuery(s)
    \/ UploadAtRest /\ TestAtRest /\ searchDocuments
    \/ UploadAtRest /\ TestAtRest
          /\ \E i \in 1..Len(searchHttp) : \E r \in SearchAnswers(docCount) : ServerSearch(i, r)
    \/ UploadAtRest /\ TestAtRest /\ \E i \in 1..Len(searchHttp) : SearchNext(i)
    \/ UploadAtRest /\ TestAtRest /\ \E i \in 1..Len(searchHttp) : SearchError(i)
    \/ UploadAtRest /\ SearchAtRest /\ \E s \in TestQueries : TypeTestQuery(s)
    \/ UploadAtRest /\ SearchAtRest /\ testRAGQuery
    \/ UploadAtRest /\ SearchAtRest
          /\ \E i \in 1..Len(testHttp) : \E r \in TestPayloads : TestQueryNext(i, r)
    \/ UploadAtRest /\ SearchAtRest /\ \E i \in 1..Len(testHttp) : TestQueryError(i)

BusySpec == Init /\ [][BusyNext]_vars

\* The upload form of DocumentsComponent: selections and uploads, several
\* of them in flight at a time.  The GETs that successful uploads start stay
\* in flight.
UploadFormNext ==
    \/ \E f \in Files : onFileSelected(f)
    \/ onFileSelectedNone
    \/ uploadDocument
    \/ \E i \in 1..Len(uploadHttp) : ServerUpload(i)
    \/ \E i \in 1..Len(uploadHttp) : UploadNext(i)
    \/ \E i \in 1..Len(uploadHttp) : \E d \in ErrorDetails : UploadError(i, d)

UploadSpec == Init /\ [][UploadFormNext]_vars

====
